---- MODULE Spec2Model ----
(***************************************************************************)
(* Family-tree generator: FamilyTree.build (breadth-first expansion from   *)
(* a founding couple) over PersonFactory (partners, children, names) and   *)
(* Person (partner / children links).                                      *)
(*                                                                         *)
(* Persons live in a heap `persons` (a sequence; a person's identity is    *)
(* its index, 0 is None).  Every random draw of the code is a \E over the  *)
(* values the draw can return.  An exception that escapes build is the     *)
(* outcome "raised"; whatever the code had already mutated stays mutated.  *)
(* A Person carries the fields the properties read: first_name, birth_year, *)
(* gender, partner, children_list.  last_name is left out.  death_year is   *)
(* not stored in the heap: the lookup that computes it is kept in           *)
(* create_person, and its value is generate_year_died, run under DiedSpec.  *)
(* create_children is also run on its own, under ChildrenSpec.              *)
(***************************************************************************)
EXTENDS Integers, Sequences, FiniteSets, TLC

VARIABLES
    factory,     \* PersonFactory tables: life_exp_by_decade, rates_by_decade, first_names
    start_year,  \* FamilyTree.start_year
    end_year,    \* FamilyTree.end_year
    script,      \* calls the client still makes on the tree, in order
    persons,     \* heap of Person objects ever constructed
    roots,       \* FamilyTree.roots
    people,      \* FamilyTree.people
    queue,       \* local `queue` of build
    pc,          \* "idle" (no call in progress) or "loop" (inside build's while loop)
    outcome,     \* how the last call ended
    fromEmpty,   \* history: the current/last build found the tree empty
    builds,      \* history: number of build calls that have returned normally
    enqueued,    \* history: persons appended to queue by the current build, in order
    dequeued,    \* history: persons popped from queue by the current build, in order
    invoked,     \* history: (parent1, parent2) of every create_children call of the current build
    last_count,  \* history: `count` of the last direct call of create_children (0 before it)
    last_kids,   \* the list `kids` the last direct call of create_children returned
    died         \* year_born and result of the last direct call of generate_year_died

vars == <<factory, start_year, end_year, script, persons, roots, people, queue, pc, outcome,
          fromEmpty, builds, enqueued, dequeued, invoked, last_count, last_kids, died>>

-----------------------------------------------------------------------------
(* Program constants *)

FounderYear == 1950
DefaultStartYear == 1950
PartnerFloor == 1950
PartnerSpread == 10
LifeSpread == 10
FertilityStart == 25
FertilityEnd == 45
SpreadHalfWidth == 15

(* Bounds of the model *)

MaxEndYear == 1975
MaxBuilds == 2
LateEndYear == 1995

Genders == {"M", "F"}
None == 0

-----------------------------------------------------------------------------
(* Arithmetic helpers *)

Abs(x) == IF x < 0 THEN -x ELSE x

Min(a, b) == IF a <= b THEN a ELSE b

\* Python's round() on a value given in tenths: nearest integer, ties to even.
PyRound(tenths) ==
    LET q == tenths \div 10
        r == tenths % 10
    IN  IF r < 5 THEN q
        ELSE IF r > 5 THEN q + 1
        ELSE IF q % 2 = 0 THEN q ELSE q + 1

\* Python's int() on a value given in tenths: truncation toward zero.
\* Faulty variant: rounds to the nearest integer instead.
PyIntRounds(tenths) == PyRound(tenths)

\* Python's int() on a value given in tenths: truncation toward zero.
PyInt(tenths) ==
    IF tenths >= 0 THEN tenths \div 10 ELSE -((-tenths) \div 10)

get_decade(year) == (year \div 10) * 10

-----------------------------------------------------------------------------
(* Outcomes of a call *)

NoExc == [exc |-> "none", table |-> "none", decade |-> 0]
KeyError(t, d) == [exc |-> "KeyError", table |-> t, decade |-> d]
ValueError(t, d) == [exc |-> "ValueError", table |-> t, decade |-> d]

NoDeath == [year_born |-> 0, death_year |-> 0]

NoCall == [call |-> "none", status |-> "none", error |-> NoExc]
Running(c) == [call |-> c, status |-> "running", error |-> NoExc]
Returned(c) == [call |-> c, status |-> "returned", error |-> NoExc]
Raised(c, e) == [call |-> c, status |-> "raised", error |-> e]

-----------------------------------------------------------------------------
(* Person *)

\* Person.__init__: no partner, no children.  A first name is a token that
\* identifies the (decade, gender) pool it was drawn from.
Person(first_name, birth_year, gender) ==
    [first_name |-> first_name, birth_year |-> birth_year, gender |-> gender,
     partner |-> None, children_list |-> <<>>]

\* Person.add_partner, faulty variant: only the caller's side is linked.
add_partner_oneway(ps, self, partner) ==
    [ps EXCEPT ![self].partner = partner]

\* Person.add_partner on the heap ps.
add_partner(ps, self, partner) ==
    [ps EXCEPT ![self].partner = partner, ![partner].partner = self]

\* Person.add_child on the heap ps.
add_child(ps, self, child) ==
    [ps EXCEPT ![self].children_list = Append(@, child)]

-----------------------------------------------------------------------------
(* PersonFactory: lookups and single persons *)

\* generate_first_name: the keys the name may be drawn from; empty when the
\* decade has no pool under any gender (the code raises ValueError).
NameKeys(year_born, gender) ==
    LET decade == get_decade(year_born)
        key == <<decade, gender>>
    IN  IF key \in DOMAIN factory.first_names
        THEN {key}
        ELSE {k \in DOMAIN factory.first_names : k[1] = decade}

\* generate_first_name, faulty variant: no fallback to another gender's pool.
generate_first_name_exact(year_born, gender) ==
    LET key == <<get_decade(year_born), gender>>
    IN  IF key \in DOMAIN factory.first_names THEN factory.first_names[key] ELSE {}

\* generate_first_name: the names random.choices can return.
generate_first_name(year_born, gender) ==
    UNION {factory.first_names[k] : k \in NameKeys(year_born, gender)}

\* generate_year_died reads life_exp_by_decade[decade]: KeyError when absent.
LifeKnown(year_born) == get_decade(year_born) \in DOMAIN factory.life_exp_by_decade

\* generate_year_died, line 316, for the draw u of random.randint(-10, 10)
\* (life expectancy in tenths of a year).
generate_year_died(year_born, u) ==
    year_born + PyInt(factory.life_exp_by_decade[get_decade(year_born)] + 10 * u)

\* has_partner / number_of_children read rates_by_decade[decade].
RatesKnown(year_born) == get_decade(year_born) \in DOMAIN factory.rates_by_decade

\* The exception create_person(year_born) ends in when the draw is `gender`,
\* NoExc when it returns: first name first, then the death year.
create_person_error(year_born, gender) ==
    IF generate_first_name(year_born, gender) = {}
    THEN ValueError("first_names", get_decade(year_born))
    ELSE IF ~LifeKnown(year_born)
    THEN KeyError("life_exp_by_decade", get_decade(year_born))
    ELSE NoExc

\* create_person / create_person_with_family_name: the Person objects a call
\* with the gender draw `gender` can return.
create_person(year_born, gender) ==
    IF create_person_error(year_born, gender) # NoExc THEN {}
    ELSE {Person(n, year_born, gender) : n \in generate_first_name(year_born, gender)}

\* has_partner: the values random.random() < marriage_rate can take
\* (marriage_rate in percent).
has_partner(ps, person) ==
    LET marriage_rate == factory.rates_by_decade[get_decade(ps[person].birth_year)][2]
    IN  {b \in BOOLEAN : (b => marriage_rate > 0) /\ (~b => marriage_rate < 100)}

\* number_of_children: the values random.randint(low, high) can take
\* (birth_rate in tenths).
number_of_children(ps, person) ==
    LET birth_rate == factory.rates_by_decade[get_decade(ps[person].birth_year)][1]
        low0 == PyRound(birth_rate - SpreadHalfWidth)
        high == PyRound(birth_rate + SpreadHalfWidth)
        low == IF low0 < 0 THEN 0 ELSE low0
    IN  low .. high

-----------------------------------------------------------------------------
(* PersonFactory: partners and children *)

\* create_partner: every result of the draws (offset, gender, name).  The new
\* Person is constructed only if create_person returns.
create_partner(ps, person) ==
    LET n == Len(ps) + 1
    IN  UNION { LET y0 == ps[person].birth_year + v
                    year == IF y0 < PartnerFloor THEN PartnerFloor ELSE y0
                    err == create_person_error(year, g)
                IN  IF err # NoExc
                    THEN {[persons |-> ps, partner |-> None, error |-> err]}
                    ELSE {[persons |-> add_partner(add_partner(Append(ps, rec), person, n),
                                                   n, person),
                           partner |-> n, error |-> NoExc]
                          : rec \in create_person(year, g)}
              : v \in (-PartnerSpread)..PartnerSpread, g \in Genders }

\* create_children, faulty variant: a jittered year is not clamped to the window.
clamp_year_none(y, start, end) == y

\* create_children: clamp a jittered year to the fertility window.
clamp_year(y, start, end) ==
    IF y < start THEN start ELSE IF y > end THEN end ELSE y

\* create_children, count > 1: the years child i (from 0) can get.  With
\* d = count - 1 the evenly spaced year is y = Y / d; int(round(y + j)) for a
\* jitter j in [-1, 1) is n when y + j lies within 0.5 of n (ties to even).
spaced_year(count, i, start, end) ==
    LET d == count - 1
        Y == start * d + (end - start) * i
        raw == {n \in ((Y \div d) - 2)..((Y \div d) + 2) :
                    \/ 2 * Abs(n * d - Y) < 3 * d
                    \/ 2 * (Y - n * d) = 3 * d /\ n % 2 = 0}
    IN  {clamp_year(n, start, end) : n \in raw}

RECURSIVE spaced_years(_, _, _, _)
\* create_children, count > 1: the lists `years` from child i on.
spaced_years(count, i, start, end) ==
    IF i >= count THEN {<<>>}
    ELSE {<<y>> \o rest : y \in spaced_year(count, i, start, end),
                           rest \in spaced_years(count, i + 1, start, end)}

\* create_children: the lists `years` the draws can produce.
birth_years(count, start, end) ==
    IF count = 1 THEN {<<y>> : y \in start..end}
    ELSE spaced_years(count, 0, start, end)

\* create_children, faulty variant: no candidate year is skipped.
after_cutoff_never(year, ey) == FALSE

\* create_children: `if year > end_year: continue`.
after_cutoff(year, ey) == year > ey

\* create_children, faulty variant: the child is added to parent1 only.
link_child_parent1(ps, parent1, parent2, child) == add_child(ps, parent1, child)

\* create_children: parent1.add_child(child); parent2.add_child(child).
link_child(ps, parent1, parent2, child) ==
    add_child(add_child(ps, parent1, child), parent2, child)

\* create_children, faulty variant: the child is put at the front of kids.
append_kid_front(kids, child) == <<child>> \o kids

\* create_children, line 467: kids.append(child).
append_kid(kids, child) == Append(kids, child)

RECURSIVE make_children(_, _, _, _, _)
\* create_children, the loop over `years` for the years that are not skipped:
\* children already linked to their parents stay linked when a later
\* child's creation raises.
make_children(ps, parent1, parent2, years, kids) ==
    IF years = <<>> THEN {[persons |-> ps, kids |-> kids, error |-> NoExc]}
    ELSE UNION { LET err == create_person_error(Head(years), g)
                     n == Len(ps) + 1
                 IN  IF err # NoExc
                     THEN {[persons |-> ps, kids |-> kids, error |-> err]}
                     ELSE UNION { make_children(
                                      link_child(Append(ps, rec), parent1, parent2, n),
                                      parent1, parent2, Tail(years), append_kid(kids, n))
                                  : rec \in create_person(Head(years), g) }
               : g \in Genders }

\* create_children from line 420 on, for the value `count` that
\* number_of_children returned: every result of the remaining draws.
children_of_count(ps, parent1, parent2, ey, count) ==
    LET elder_birth == Min(ps[parent1].birth_year, ps[parent2].birth_year)
        start == elder_birth + FertilityStart
        end == elder_birth + FertilityEnd
        drawn == IF count <= 0 THEN {<<>>} ELSE birth_years(count, start, end)
        kept == {SelectSeq(years, LAMBDA y : ~after_cutoff(y, ey)) : years \in drawn}
    IN  UNION { make_children(ps, parent1, parent2, years, <<>>) : years \in kept }

\* The exception number_of_children(parent1) ends in, NoExc when it returns.
number_of_children_error(ps, parent1) ==
    IF ~RatesKnown(ps[parent1].birth_year)
    THEN KeyError("rates_by_decade", get_decade(ps[parent1].birth_year))
    ELSE IF number_of_children(ps, parent1) = {}
    THEN \* random.randint(low, high) with high < low (a birth rate below -1.5)
         ValueError("randint", get_decade(ps[parent1].birth_year))
    ELSE NoExc

\* create_children(parent1, parent2, end_year): every result of the draws.
create_children(ps, parent1, parent2, ey) ==
    IF number_of_children_error(ps, parent1) # NoExc
    THEN {[persons |-> ps, kids |-> <<>>, error |-> number_of_children_error(ps, parent1)]}
    ELSE UNION { children_of_count(ps, parent1, parent2, ey, count)
                 : count \in number_of_children(ps, parent1) }

-----------------------------------------------------------------------------
(* FamilyTree *)

\* create_initial_couple: both founders born in FounderYear and linked; every
\* result of the two gender draws.  roots is <<>> when the call raises.
create_initial_couple(ps) ==
    LET n == Len(ps) + 1
    IN  UNION { LET e1 == create_person_error(FounderYear, g1)
                    e2 == create_person_error(FounderYear, g2)
                IN  IF e1 # NoExc
                    THEN {[persons |-> ps, roots |-> <<>>, error |-> e1]}
                    ELSE IF e2 # NoExc
                    THEN {[persons |-> Append(ps, r1), roots |-> <<>>, error |-> e2]
                          : r1 \in create_person(FounderYear, g1)}
                    ELSE {[persons |-> add_partner(ps \o <<r1, r2>>, n, n + 1),
                           roots |-> <<n, n + 1>>, error |-> NoExc]
                          : r1 \in create_person(FounderYear, g1),
                            r2 \in create_person(FounderYear, g2)}
              : g1 \in Genders, g2 \in Genders }

\* build, faulty variant: a missing rates entry counts as "no partner".
partner_step_skip(ps, person) ==
    IF ps[person].partner # None
    THEN {[persons |-> ps, partner |-> ps[person].partner, added |-> <<>>, error |-> NoExc]}
    ELSE {[persons |-> ps, partner |-> None, added |-> <<>>, error |-> NoExc]}

\* build, lines 55-61: the partner of the dequeued person, created if the
\* person has none and has_partner says so.  added: what went into people and queue.
partner_step(ps, person) ==
    IF ps[person].partner # None
    THEN {[persons |-> ps, partner |-> ps[person].partner, added |-> <<>>, error |-> NoExc]}
    ELSE IF ~RatesKnown(ps[person].birth_year)
    THEN {[persons |-> ps, partner |-> None, added |-> <<>>,
           error |-> KeyError("rates_by_decade", get_decade(ps[person].birth_year))]}
    ELSE UNION { IF b
                 THEN {[persons |-> r.persons, partner |-> r.partner,
                        added |-> IF r.error = NoExc THEN <<r.partner>> ELSE <<>>,
                        error |-> r.error]
                       : r \in create_partner(ps, person)}
                 ELSE {[persons |-> ps, partner |-> None, added |-> <<>>, error |-> NoExc]}
               : b \in has_partner(ps, person) }

\* build, line 65: the dequeued person generates the couple's children.
generates_children(ps, person, partner) ==
    partner # None /\ ps[person].birth_year <= ps[partner].birth_year

\* build, lines 67-71: the kids that go into people and queue.
admitted(ps, kids) == SelectSeq(kids, LAMBDA c : ps[c].birth_year <= end_year)

\* build, lines 54-71: one iteration of the while loop for the dequeued person.
loop_body(ps, person) ==
    UNION { IF a.error # NoExc
            THEN {[persons |-> a.persons, added |-> <<>>, invoked |-> <<>>, error |-> a.error]}
            ELSE IF generates_children(a.persons, person, a.partner)
            THEN {[persons |-> c.persons,
                   added |-> IF c.error = NoExc
                             THEN a.added \o admitted(c.persons, c.kids)
                             ELSE a.added,
                   invoked |-> << <<person, a.partner>> >>,
                   error |-> c.error]
                  : c \in create_children(a.persons, person, a.partner, end_year)}
            ELSE {[persons |-> a.persons, added |-> a.added, invoked |-> <<>>,
                   error |-> NoExc]}
          : a \in partner_step(ps, person) }

\* build, faulty variant: the head of the queue is read but not removed.
pop_front_keep(q) == q

\* build, line 54: what queue.pop(0) leaves in the queue.
pop_front(q) == Tail(q)

-----------------------------------------------------------------------------
(* Inputs: the factory's tables, end_year and the client's calls *)

FirstChildYear == FounderYear + FertilityStart

AllDecades ==
    {get_decade(y) : y \in (FounderYear - PartnerSpread)..(LateEndYear + FertilityEnd)}

AllKeys == AllDecades \X Genders

\* A loaded factory.  Life expectancy 70.5 years; birth_rate in tenths,
\* marriage_rate in percent; one name per pool, named after its key.
Tables(noLife, noRates, noNames, birth_rate, marriage_rate) ==
    [life_exp_by_decade |-> [d \in AllDecades \ noLife |-> 705],
     rates_by_decade |-> [d \in AllDecades \ noRates |-> <<birth_rate, marriage_rate>>],
     first_names |-> [k \in AllKeys \ noNames |-> {k}]]

Complete == Tables({}, {}, {}, 5, 50)
Unmarried == Tables({}, {}, {}, 5, 0)
NameHoles == Tables({1980}, {}, {<<1960, "M">>, <<1960, "F">>, <<1970, "F">>}, 5, 50)
NoRates(d) == Tables({}, {d}, {}, 5, 50)
NoFounderNames == Tables({}, {}, {<<FounderYear, "M">>, <<FounderYear, "F">>}, 5, 0)
LateHoles == Tables({1990}, {}, {}, 5, 0)

RECURSIVE Repeat(_, _)
Repeat(x, n) == IF n = 0 THEN <<>> ELSE <<x>> \o Repeat(x, n - 1)

Scripts ==
    {Repeat("build", n) : n \in 1..MaxBuilds}
    \cup {<<"create_initial_couple">>, <<"create_initial_couple", "build">>,
          <<"build", "create_initial_couple">>}

\* FamilyTree(factory, start_year, end_year) and the client's calls.
ScenarioFrom(f, sy, e, s) ==
    [factory |-> f, start_year |-> sy, end_year |-> e, script |-> s]

\* FamilyTree(factory, end_year=e): start_year keeps its default.
Scenario(f, e, s) == ScenarioFrom(f, DefaultStartYear, e, s)

Scenarios ==
    {Scenario(Unmarried, e, s) : e \in FounderYear..MaxEndYear, s \in Scripts}
    \cup {Scenario(f, FirstChildYear, <<"build">>)
          : f \in {Complete, NameHoles, NoRates(1950), NoRates(1970)}}
    \cup {Scenario(NoFounderNames, FirstChildYear, s) : s \in Scripts}
    \cup {Scenario(LateHoles, LateEndYear, <<"build">>)}
    \cup {ScenarioFrom(Unmarried, FounderYear + PartnerSpread, FirstChildYear, s)
          : s \in {<<"build">>, <<"create_initial_couple">>}}

-----------------------------------------------------------------------------
(* The state machine *)

\* The tree after FamilyTree.__init__, for the inputs of scenario sc.
InitFor(sc) ==
    /\ factory = sc.factory
    /\ start_year = sc.start_year
    /\ end_year = sc.end_year
    /\ script = sc.script
    /\ persons = <<>>
    /\ roots = <<>>
    /\ people = <<>>
    /\ queue = <<>>
    /\ pc = "idle"
    /\ outcome = NoCall
    /\ fromEmpty = FALSE
    /\ builds = 0
    /\ enqueued = <<>>
    /\ dequeued = <<>>
    /\ invoked = <<>>
    /\ last_count = 0
    /\ last_kids = <<>>
    /\ died = NoDeath

Init == \E sc \in Scenarios : InitFor(sc)

\* The scenarios without the one whose every table is complete and whose
\* every descendant may marry (the widest one).
LiveScenarios == Scenarios \ {Scenario(Complete, FirstChildYear, <<"build">>)}

LiveInit == \E sc \in LiveScenarios : InitFor(sc)

\* The client calls create_initial_couple().
CreateInitialCouple ==
    /\ pc = "idle"
    /\ script # <<>> /\ Head(script) = "create_initial_couple"
    /\ script' = Tail(script)
    /\ \E r \in create_initial_couple(persons) :
          /\ persons' = r.persons
          /\ IF r.error = NoExc
             THEN /\ roots' = r.roots /\ people' = r.roots
                  /\ outcome' = Returned("create_initial_couple")
             ELSE /\ UNCHANGED <<roots, people>>
                  /\ outcome' = Raised("create_initial_couple", r.error)
    /\ UNCHANGED <<factory, start_year, end_year, queue, pc, fromEmpty, builds,
                   enqueued, dequeued, invoked, last_count, last_kids, died>>

\* The client calls build(): lines 44-51, up to the first test of `while queue`.
BuildStart ==
    /\ pc = "idle"
    /\ script # <<>> /\ Head(script) = "build"
    /\ script' = Tail(script)
    /\ fromEmpty' = (roots = <<>>)
    /\ dequeued' = <<>>
    /\ invoked' = <<>>
    /\ IF roots = <<>>
       THEN \E r \in create_initial_couple(persons) :
               /\ persons' = r.persons
               /\ IF r.error = NoExc
                  THEN /\ roots' = r.roots /\ people' = r.roots
                       /\ queue' = r.roots /\ enqueued' = r.roots
                       /\ pc' = "loop" /\ outcome' = Running("build")
                  ELSE /\ UNCHANGED <<roots, people, queue, pc>>
                       /\ enqueued' = <<>>
                       /\ outcome' = Raised("build", r.error)
       ELSE /\ queue' = <<roots[1], roots[2]>>
            /\ enqueued' = <<roots[1], roots[2]>>
            /\ pc' = "loop" /\ outcome' = Running("build")
            /\ UNCHANGED <<persons, roots, people>>
    /\ UNCHANGED <<factory, start_year, end_year, builds, last_count, last_kids, died>>

\* build, lines 53-71: one iteration of the while loop.  An exception leaves
\* build; its local queue is gone.
BuildStep ==
    /\ pc = "loop"
    /\ queue # <<>>
    /\ LET person == Head(queue)
       IN  \E r \in loop_body(persons, person) :
              /\ persons' = r.persons
              /\ people' = people \o r.added
              /\ enqueued' = enqueued \o r.added
              /\ dequeued' = Append(dequeued, person)
              /\ invoked' = invoked \o r.invoked
              /\ IF r.error = NoExc
                 THEN /\ queue' = pop_front(queue) \o r.added
                      /\ pc' = "loop"
                      /\ outcome' = Running("build")
                 ELSE /\ queue' = <<>>
                      /\ pc' = "idle"
                      /\ outcome' = Raised("build", r.error)
    /\ UNCHANGED <<factory, start_year, end_year, script, roots, fromEmpty, builds, last_count, last_kids, died>>

\* build, lines 53 and 73: the queue is empty, build returns people.
BuildReturn ==
    /\ pc = "loop"
    /\ queue = <<>>
    /\ pc' = "idle"
    /\ outcome' = Returned("build")
    /\ builds' = builds + 1
    /\ UNCHANGED <<factory, start_year, end_year, script, persons, roots, people, queue,
                   fromEmpty, enqueued, dequeued, invoked, last_count, last_kids, died>>

Next == CreateInitialCouple \/ BuildStart \/ BuildStep \/ BuildReturn

Spec == Init /\ [][Next]_vars

\* build runs to completion within one call: a started build keeps stepping.
FairSpec == LiveInit /\ [][Next]_vars /\ WF_vars(BuildStep) /\ WF_vars(BuildReturn)

-----------------------------------------------------------------------------
(* test_family: one person born in TestYear, a partner if has_partner says  *)
(* so, and the couple's children with create_children's default end_year.   *)

TestYear == 1980
DefaultEndYear == 2120
MaxBirthRateHalves == 3

TestDecades ==
    {get_decade(y) : y \in (TestYear - PartnerSpread)..(TestYear + PartnerSpread + FertilityEnd)}

\* Complete tables over the decades test_family can touch, birth_rate in tenths.
TestTables(birth_rate) ==
    [life_exp_by_decade |-> [d \in TestDecades |-> 705],
     rates_by_decade |-> [d \in TestDecades |-> <<birth_rate, 50>>],
     first_names |-> [k \in TestDecades \X Genders |-> {k}]]

TestInit ==
    /\ \E h \in 0..MaxBirthRateHalves : factory = TestTables(5 * h)
    /\ start_year = DefaultStartYear
    /\ end_year = DefaultEndYear
    /\ script = <<>>
    /\ persons = <<>>
    /\ roots = <<>>
    /\ people = <<>>
    /\ queue = <<>>
    /\ pc = "test_person"
    /\ outcome = NoCall
    /\ fromEmpty = FALSE
    /\ builds = 0
    /\ enqueued = <<>>
    /\ dequeued = <<>>
    /\ invoked = <<>>
    /\ last_count = 0
    /\ last_kids = <<>>
    /\ died = NoDeath

\* test_family, line 479: person = factory.create_person(1980).
TestCreatePerson ==
    /\ pc = "test_person"
    /\ \E g \in Genders : \E rec \in create_person(TestYear, g) :
          persons' = Append(persons, rec)
    /\ pc' = "test_partner"
    /\ UNCHANGED <<factory, start_year, end_year, script, roots, people, queue, outcome,
                   fromEmpty, builds, enqueued, dequeued, invoked, last_count, last_kids, died>>

\* test_family, lines 483-484 and 493-494: a partner, or "no partner this time".
TestPartner ==
    /\ pc = "test_partner"
    /\ \E b \in has_partner(persons, 1) :
          IF b
          THEN /\ \E r \in create_partner(persons, 1) : persons' = r.persons
               /\ pc' = "test_children"
          ELSE /\ pc' = "test_done"
               /\ UNCHANGED persons
    /\ UNCHANGED <<factory, start_year, end_year, script, roots, people, queue, outcome,
                   fromEmpty, builds, enqueued, dequeued, invoked, last_count, last_kids, died>>

\* test_family, line 488: kids = factory.create_children(person, partner).
TestChildren ==
    /\ pc = "test_children"
    /\ \E r \in create_children(persons, 1, 2, end_year) :
          /\ persons' = r.persons
          /\ invoked' = Append(invoked, <<1, 2>>)
    /\ pc' = "test_done"
    /\ UNCHANGED <<factory, start_year, end_year, script, roots, people, queue, outcome,
                   fromEmpty, builds, enqueued, dequeued, last_count, last_kids, died>>

TestNext == TestCreatePerson \/ TestPartner \/ TestChildren

TestSpec == TestInit /\ [][TestNext]_vars

-----------------------------------------------------------------------------
(* create_children called directly on a couple, as build calls it (with an  *)
(* end_year) and as test_family calls it (with the default end_year).       *)

ManyChildrenRate == 105
CutoffAfter == 5

\* The end_year that cuts the window of a parent born in TestYear.
CutoffYear == TestYear + FertilityStart + CutoffAfter

ChildScenario(r, y, e) == [birth_rate |-> r, partner_year |-> y, end_year |-> e]

\* Low birth rates with partners at both ends of the spread; one couple with
\* a birth rate whose range reaches 12 children, cut off early in the window.
ChildScenarios ==
    {ChildScenario(5 * h, y, e)
     : h \in 0..MaxBirthRateHalves,
       y \in {TestYear - PartnerSpread, TestYear, TestYear + PartnerSpread},
       e \in {CutoffYear, DefaultEndYear}}
    \cup {ChildScenario(ManyChildrenRate, TestYear, CutoffYear)}

\* A person born in TestYear and its partner, as create_person and
\* create_partner leave them, under the tables and end_year of a scenario.
ChildrenInit ==
    /\ \E sc \in ChildScenarios :
          /\ factory = TestTables(sc.birth_rate)
          /\ end_year = sc.end_year
          /\ \E g1 \in Genders, g2 \in Genders :
             \E r1 \in create_person(TestYear, g1), r2 \in create_person(sc.partner_year, g2) :
                persons = add_partner(add_partner(<<r1, r2>>, 1, 2), 2, 1)
    /\ start_year = DefaultStartYear
    /\ script = <<>>
    /\ roots = <<>>
    /\ people = <<>>
    /\ queue = <<>>
    /\ pc = "call_children"
    /\ outcome = NoCall
    /\ fromEmpty = FALSE
    /\ builds = 0
    /\ enqueued = <<>>
    /\ dequeued = <<>>
    /\ invoked = <<>>
    /\ last_count = 0
    /\ last_kids = <<>>
    /\ died = NoDeath

\* kids = factory.create_children(person, partner, end_year).
CallCreateChildren ==
    /\ pc = "call_children"
    /\ pc' = "called"
    /\ invoked' = Append(invoked, <<1, 2>>)
    /\ IF number_of_children_error(persons, 1) # NoExc
       THEN /\ outcome' = Raised("create_children", number_of_children_error(persons, 1))
            /\ UNCHANGED <<persons, last_count, last_kids, died>>
       ELSE \E c \in number_of_children(persons, 1) :
            \E r \in children_of_count(persons, 1, 2, end_year, c) :
               /\ persons' = r.persons
               /\ last_count' = c
               /\ IF r.error = NoExc
                  THEN /\ last_kids' = r.kids
                       /\ outcome' = Returned("create_children")
                  ELSE /\ UNCHANGED last_kids
                       /\ outcome' = Raised("create_children", r.error)
    /\ UNCHANGED <<factory, start_year, end_year, script, roots, people, queue,
                   fromEmpty, builds, enqueued, dequeued, died>>

ChildrenNext == CallCreateChildren

ChildrenSpec == ChildrenInit /\ [][ChildrenNext]_vars

-----------------------------------------------------------------------------
(* generate_year_died called directly, as create_person and                 *)
(* create_person_with_family_name call it for every person they create.     *)

LongLife == 700
ShortLife == 50
MaxLifeFraction == 9

\* Life expectancies in tenths of a year, every fractional part from .0 on:
\* 70.0 .. 70.9 years, and 5.0 .. 5.9 years (the sum with the draw can be negative).
LifeExpectancies ==
    {LongLife + t : t \in 0..MaxLifeFraction} \cup {ShortLife + t : t \in 0..MaxLifeFraction}

\* Complete tables over the decades of TestDecades with life expectancy le.
LifeTables(le) ==
    [life_exp_by_decade |-> [d \in TestDecades |-> le],
     rates_by_decade |-> [d \in TestDecades |-> <<5, 50>>],
     first_names |-> [k \in TestDecades \X Genders |-> {k}]]

DiedInit ==
    /\ \E le \in LifeExpectancies : factory = LifeTables(le)
    /\ start_year = DefaultStartYear
    /\ end_year = DefaultEndYear
    /\ script = <<>>
    /\ persons = <<>>
    /\ roots = <<>>
    /\ people = <<>>
    /\ queue = <<>>
    /\ pc = "call_died"
    /\ outcome = NoCall
    /\ fromEmpty = FALSE
    /\ builds = 0
    /\ enqueued = <<>>
    /\ dequeued = <<>>
    /\ invoked = <<>>
    /\ last_count = 0
    /\ last_kids = <<>>
    /\ died = NoDeath

\* death_year = self.generate_year_died(year_born), for a person born in
\* TestYear or at the start of any decade of the tables.
GenerateYearDied ==
    /\ pc = "call_died"
    /\ pc' = "called"
    /\ \E year_born \in {TestYear} \cup TestDecades :
          IF ~LifeKnown(year_born)
          THEN /\ outcome' = Raised("generate_year_died",
                                    KeyError("life_exp_by_decade", get_decade(year_born)))
               /\ UNCHANGED died
          ELSE \E u \in (-LifeSpread)..LifeSpread :
                  /\ died' = [year_born |-> year_born,
                              death_year |-> generate_year_died(year_born, u)]
                  /\ outcome' = Returned("generate_year_died")
    /\ UNCHANGED <<factory, start_year, end_year, script, persons, roots, people, queue,
                   fromEmpty, builds, enqueued, dequeued, invoked, last_count, last_kids>>

DiedNext == GenerateYearDied

DiedSpec == DiedInit /\ [][DiedNext]_vars

-----------------------------------------------------------------------------
(* Properties *)

InPeople == {people[i] : i \in DOMAIN people}

Children(p) == {persons[p].children_list[i] : i \in DOMAIN persons[p].children_list}

\* The last call was a build and it returned normally.
BuildReturned == pc = "idle" /\ outcome = Returned("build")

Couple(c) == {c[1], c[2]}

\* C1: during a single build, create_children is invoked at most once per
\* couple: no two invocations of the build are for the same two partners.
ChildrenOncePerCouple ==
    \A i, j \in DOMAIN invoked : i < j => Couple(invoked[i]) # Couple(invoked[j])

\* C2: the partner link is symmetric: every person of people with a partner is
\* the partner of that partner.
PartnerSymmetric ==
    \A p \in InPeople :
        persons[p].partner # None => persons[persons[p].partner].partner = p

\* C2 witness: build has created a partner for a descendant and put it into people.
PartnerCreated ==
    \E i \in DOMAIN people :
        /\ i > 2
        /\ persons[people[i]].partner # None
        /\ persons[people[i]].children_list = <<>>
        /\ persons[people[i]].birth_year < FirstChildYear

\* C3: after build, the two partners of every couple have the same children,
\* and no person occurs twice in a children list.
ChildrenConsistent ==
    BuildReturned =>
        \A p \in InPeople :
            /\ persons[p].partner # None =>
                   Children(p) = Children(persons[p].partner)
            /\ Cardinality(Children(p)) = Len(persons[p].children_list)

\* C3 witness: a build has returned and a couple has children from both
\* partners' turns.
CoupleWithChildren ==
    /\ BuildReturned
    /\ \E p \in InPeople :
          persons[p].partner # None /\ Len(persons[p].children_list) >= 2

\* C4: after build, every person of people was born no later than end_year.
AllBornByEndYear ==
    BuildReturned => \A p \in InPeople : persons[p].birth_year <= end_year

\* C7: with end_year before the founders' 25th year, build on an empty tree
\* yields exactly the two childless founders (and holds no more at any point
\* of its run).
OnlyFoundersBeforeFirstChildYear ==
    (/\ outcome.call = "build" /\ outcome.status # "raised"
     /\ fromEmpty
     /\ end_year < FounderYear + FertilityStart) =>
        /\ Len(people) = 2
        /\ people = roots
        /\ \A p \in InPeople : persons[p].children_list = <<>>

\* C7 witness: build has returned on an empty tree with start_year = end_year = 1950.
BuiltWithEndYear1950 ==
    BuildReturned /\ fromEmpty /\ end_year = FounderYear /\ Len(people) = 2

IsPrefix(a, b) == Len(a) <= Len(b) /\ SubSeq(b, 1, Len(a)) = a

NoDuplicates(q) == \A i, j \in DOMAIN q : q[i] = q[j] => i = j

\* C8: during (and after) a build started on an empty tree, people is the
\* sequence of persons in enqueue order, each person is in it once, the
\* persons dequeued so far followed by the queue are exactly people (so each
\* is enqueued and dequeued once, all of them when build returns), and a step
\* only appends to people.
PeopleInEnqueueOrder ==
    /\ [](( /\ fromEmpty
            /\ outcome.call = "build"
            /\ outcome.status # "raised" ) =>
              /\ people = enqueued
              /\ NoDuplicates(people)
              /\ dequeued \o queue = people
              /\ (BuildReturned => dequeued = people))
    /\ [][IsPrefix(people, people') \/ outcome'.call # "build"]_vars

\* C8 witness: a build on an empty tree has returned with founders, children
\* and a partner in people.
BuiltThreeKinds ==
    /\ BuildReturned /\ fromEmpty
    /\ Len(people) >= 5
    /\ \E i \in DOMAIN people : i > 2 /\ persons[people[i]].partner # None

\* C9: a build on a tree that a build has already populated changes neither
\* people, nor roots, nor any person's links.
RebuildChangesNothing ==
    [][(builds >= 1 /\ (pc = "loop" \/ pc' = "loop")) =>
          (people' = people /\ roots' = roots /\ persons' = persons)]_vars

\* A lookup the iteration for person p is bound to make has no data.
RatesMissingFor(p) ==
    /\ ~RatesKnown(persons[p].birth_year)
    /\ \/ persons[p].partner = None
       \/ persons[p].birth_year <= persons[persons[p].partner].birth_year

\* The table the error names really has no entry for the decade (for
\* first_names: under no gender).
TrulyMissing(e) ==
    /\ e.table = "rates_by_decade" => e.decade \notin DOMAIN factory.rates_by_decade
    /\ e.table = "life_exp_by_decade" => e.decade \notin DOMAIN factory.life_exp_by_decade
    /\ e.table = "first_names" =>
           \A k \in DOMAIN factory.first_names : k[1] # e.decade

MaxLitter ==
    LET highs == {PyRound(factory.rates_by_decade[d][1] + SpreadHalfWidth)
                  : d \in DOMAIN factory.rates_by_decade}
    IN  IF highs = {} THEN 0 ELSE CHOOSE h \in highs : \A g \in highs : g <= h

RECURSIVE Unpartnered(_)
\* A bound on the loop iterations that a queued person without a partner,
\* born in year y, accounts for: its own, its partner's, and those of the
\* children either of them may generate, none born after end_year.
Unpartnered(y) ==
    LET Candidate(z) == IF z > end_year THEN 0 ELSE Unpartnered(z)
        earliest == IF y - PartnerSpread < PartnerFloor THEN PartnerFloor
                    ELSE y - PartnerSpread
    IN  2 + MaxLitter * Candidate(earliest + FertilityStart)
          + MaxLitter * Candidate(y + FertilityStart)

\* The same bound for any queued person.
Potential(p) ==
    LET y == persons[p].birth_year
        q == persons[p].partner
    IN  IF q = None THEN Unpartnered(y)
        ELSE IF y <= persons[q].birth_year
        THEN 1 + MaxLitter * (IF y + FertilityStart > end_year THEN 0
                              ELSE Unpartnered(y + FertilityStart))
        ELSE 1

RECURSIVE Rank(_)
Rank(q) == IF q = <<>> THEN 0 ELSE Potential(Head(q)) + Rank(Tail(q))

\* C5: build terminates: every started build leaves its loop, because each
\* iteration lowers a bound on the work left in the queue (children are born
\* at least 25 years after the elder parent, none after end_year).
BuildTerminates ==
    /\ (pc = "loop") ~> (pc = "idle")
    /\ [][(pc = "loop" /\ dequeued' # dequeued) =>
             Rank(queue)' < Rank(queue)]_vars

\* C5 witness: a build with two generations and a partner has returned.
BuildFinished ==
    /\ BuildReturned
    /\ dequeued = people
    /\ Len(people) >= 5
    /\ \E p \in InPeople : persons[p].birth_year > FounderYear + FertilityStart

\* The elder parent's birth year of the couple (p, partner of p).
ElderBirth(p) ==
    Min(persons[p].birth_year, persons[persons[p].partner].birth_year)

\* C6: every child create_children produces is born 25 to 45 years after the
\* elder parent, whatever the count and the jitter.
ChildrenInFertilityWindow ==
    \A p \in DOMAIN persons : \A c \in Children(p) :
        /\ FertilityStart <= persons[c].birth_year - ElderBirth(p)
        /\ persons[c].birth_year - ElderBirth(p) <= FertilityEnd

\* C6 witness: create_children has returned three children, the first at the
\* start and the last at the end of the window.
ThreeChildrenAcrossWindow ==
    /\ pc = "test_done"
    /\ invoked # <<>>
    /\ Len(persons[1].children_list) = 3
    /\ persons[persons[1].children_list[1]].birth_year - ElderBirth(1) = FertilityStart
    /\ persons[persons[1].children_list[3]].birth_year - ElderBirth(1) = FertilityEnd

\* The birth years of the persons of the list q, in order.
BirthYearsOf(q) == [i \in DOMAIN q |-> persons[q[i]].birth_year]

NonDecreasing(q) == \A i \in 1..(Len(q) - 1) : q[i] <= q[i + 1]

\* The direct call of create_children has returned.
ChildrenReturned == pc = "called" /\ outcome = Returned("create_children")

\* The largest count whose spacing step is at least the jitter's full width
\* of 2 years: (count - 1) * 2 <= end - start.
OrderedUpTo == (FertilityEnd - FertilityStart) \div 2 + 1

\* C11 as stated: create_children returns at most count children, in
\* non-decreasing birth-year order, for every count and every jitter.
ChildrenAscendingWithinCount ==
    ChildrenReturned =>
        /\ Len(last_kids) <= last_count
        /\ NonDecreasing(BirthYearsOf(last_kids))

\* C11 amended: create_children returns at most count children, the
\* children list of each parent in order; their birth years are
\* non-decreasing whenever count is at most 11 (the spacing step is then at
\* least 2 years), and for any count no child is born more than 2 years
\* before the child listed before it.
ChildrenWithinCountOrderedWhenSpaced ==
    ChildrenReturned =>
        /\ Len(last_kids) <= last_count
        /\ last_kids = persons[1].children_list
        /\ last_count <= OrderedUpTo => NonDecreasing(BirthYearsOf(last_kids))
        /\ \A i \in 1..(Len(last_kids) - 1) :
               BirthYearsOf(last_kids)[i] <= BirthYearsOf(last_kids)[i + 1] + 2

\* C11 witness: a call with a count of 9 to 11 has returned fewer children
\* than count (some candidates fell after end_year), at least three of them.
FewerChildrenThanCount ==
    /\ ChildrenReturned
    /\ last_count >= 9 /\ last_count <= OrderedUpTo
    /\ Len(last_kids) >= 3 /\ Len(last_kids) < last_count

\* C12: every person of people is born no earlier than the tree's
\* start_year, and both founders are born exactly in start_year.
AllBornFromStartYear ==
    /\ \A p \in InPeople : persons[p].birth_year >= start_year
    /\ \A i \in DOMAIN roots : persons[roots[i]].birth_year = start_year

\* n is a nearest integer of the value x given in tenths (a tie may go either way).
Nearest(x, n) == Abs(10 * n - x) <= 5

\* C13: the death year generate_year_died returns is the birth year plus
\* life_expectancy + U rounded to the nearest integer, for some integer U in
\* [-10, 10], whatever the fractional part of the life expectancy.
DeathYearRounds ==
    (pc = "called" /\ outcome = Returned("generate_year_died")) =>
        \E u \in (-LifeSpread)..LifeSpread :
            Nearest(factory.life_exp_by_decade[get_decade(died.year_born)] + 10 * u,
                    died.death_year - died.year_born)

\* C14: whenever build has stopped, by returning or by raising, people is
\* closed under the links: the partner and every child of a person of people
\* is in people.
PeopleClosedWhenBuildStops ==
    (pc = "idle" /\ outcome.call = "build" /\ outcome.status \in {"returned", "raised"}) =>
        \A p \in InPeople :
            /\ persons[p].partner # None => persons[p].partner \in InPeople
            /\ Children(p) \subseteq InPeople

====
